---- MODULE Spec2Model ----
(***************************************************************************)
(* A model of mdrs: the tokenizer (src/src/tokenizer.rs) that turns the    *)
(* character cursor into tokens, and the recursive-descent parser          *)
(* (src/src/parser.rs) that pulls those tokens through a one-token         *)
(* lookahead and builds the document tree.                                 *)
(*                                                                         *)
(* Text is a sequence of one-character strings.  The cursor position pos   *)
(* is the number of characters already read.                               *)
(***************************************************************************)
EXTENDS Integers, Sequences, FiniteSets

VARIABLES
    input,      \* the characters loaded into the CharIterator
    entry,      \* the public operation the client calls on this input
    pos,        \* CharIterator: number of characters read so far
    pulled,     \* log of Tokenizer::consume() calls: token, cursor before/after
    eaten,      \* log of Parser::eat() calls: the token each call returned
    lexpanic,   \* a panic!/todo!() was reached inside the tokenizer
    lookahead,  \* Parser.lookahead: NoToken (None) or the buffered token
    stack,      \* the parser's call stack, innermost frame last
    pstate,     \* "idle" | "running" | "done" | "panic" | "stack_overflow"
    result      \* the value returned by the entry operation once pstate = "done"

vars == <<input, entry, pos, pulled, eaten, lexpanic, lookahead, stack, pstate, result>>

-----------------------------------------------------------------------------
(* Bounds of the model. *)

\* longest input drawn from the whole alphabet
MaxLen == 3
\* deepest heading level of the heading-shaped inputs
MaxLevel == 7
\* longest heading text T of the heading-shaped inputs
MaxTextLen == 3
\* most Tokenizer::consume() calls followed on one input
MaxCalls == 14
\* call-stack frames available before the stack overflows
MaxDepth == 12

-----------------------------------------------------------------------------
(* Characters. *)

\* the backtick character (a backtick cannot be written in a TLA+ string)
Backtick == "backtick"

DelimChars == {"#", "*", Backtick, "_", "-"}

SingleChars == {"(", ")", "[", "]"}

Alphabet == DelimChars \cup SingleChars \cup {"!", " ", "a"}

HeadingTextChars == {"a", " ", "-"}

\* char::is_whitespace on the characters the inputs use
IsWhitespace(c) == c \in {" ", "\t", "\n", "\r"}

-----------------------------------------------------------------------------
(* The character cursor (bytes::CharIterator, an external collaborator of   *)
(* the tokenizer): current() peeks, read() returns the character and        *)
(* advances; at end of input both give the end-of-input sentinel.           *)

\* Bytes::Eof.char(): a sentinel that equals no character of any input
EofChar == "EOF"

AtEof(inp, p) == p >= Len(inp)

Current(inp, p) == IF AtEof(inp, p) THEN EofChar ELSE inp[p + 1]

ReadPos(inp, p) == IF AtEof(inp, p) THEN p ELSE p + 1

-----------------------------------------------------------------------------
(* Tokens (enum Token).  One record shape for every variant: n is the run   *)
(* length of a delimiter token, s the text of a String/Whitespace token.    *)

Tok(kind, n, s) == [kind |-> kind, n |-> n, s |-> s]

TokString(s) == Tok("String", 0, s)
TokWhitespace(s) == Tok("Whitespace", 0, s)
TokEOF == Tok("EOF", 0, <<>>)

\* Option::None of Parser.lookahead
NoToken == Tok("None", 0, <<>>)

\* "c".repeat(n)
RECURSIVE Repeat(_, _)
Repeat(c, n) == IF n = 0 THEN <<>> ELSE <<c>> \o Repeat(c, n - 1)

\* impl FromStr for Token: [tok, panic]
FromStr(s) ==
    IF Len(s) = 0 THEN [tok |-> TokEOF, panic |-> FALSE]
    ELSE CASE s[1] = "(" -> [tok |-> Tok("OpeningParenthesis", 0, <<>>), panic |-> FALSE]
           [] s[1] = ")" -> [tok |-> Tok("ClosingParenthesis", 0, <<>>), panic |-> FALSE]
           [] s[1] = "[" -> [tok |-> Tok("OpeningBracket", 0, <<>>), panic |-> FALSE]
           [] s[1] = "]" -> [tok |-> Tok("ClosingBracket", 0, <<>>), panic |-> FALSE]
           [] s[1] = ">" -> [tok |-> Tok("AngleBracket", 0, <<>>), panic |-> FALSE]
           [] s[1] = "!" -> [tok |-> Tok("ExclamationMark", 0, <<>>), panic |-> FALSE]
           [] OTHER -> [tok |-> NoToken, panic |-> TRUE]

\* impl ToString for Token
ToString(t) ==
    CASE t.kind = "String" -> t.s
      [] t.kind = "Hash" -> Repeat("#", t.n)
      [] t.kind = "Asterisk" -> Repeat("*", t.n)
      [] t.kind = "Backticks" -> Repeat(Backtick, t.n)
      [] t.kind = "Dash" -> Repeat("-", t.n)
      [] t.kind = "Underscore" -> Repeat("_", t.n)
      [] t.kind = "Url" -> t.s
      [] t.kind = "Whitespace" -> t.s
      [] t.kind = "OpeningBracket" -> <<"[">>
      [] t.kind = "ClosingBracket" -> <<"]">>
      [] t.kind = "OpeningParenthesis" -> <<"(">>
      [] t.kind = "ClosingParenthesis" -> <<"(">>
      [] t.kind = "AngleBracket" -> <<">">>
      [] t.kind = "ExclamationMark" -> <<"!">>
      [] OTHER -> <<>>

-----------------------------------------------------------------------------
(* The tokenizer.  Each operation gives [tok, pos, panic]: the token, the   *)
(* cursor position afterwards, and whether a panic was reached.             *)

\* consume_whitespace reading one character, without its loop
WhitespaceEndMutOne(inp, p) == ReadPos(inp, p)

\* the while loop of consume_whitespace: the cursor after the whitespace run
RECURSIVE WhitespaceEnd(_, _)
WhitespaceEnd(inp, p) ==
    IF IsWhitespace(Current(inp, p)) THEN WhitespaceEnd(inp, ReadPos(inp, p)) ELSE p

\* Tokenizer::consume_whitespace
ConsumeWhitespace(inp, p) ==
    LET e == WhitespaceEnd(inp, p)
    IN  [tok |-> TokWhitespace(SubSeq(inp, p + 1, e)), pos |-> e, panic |-> FALSE]

\* consume_string ending a text run at a dash or a backtick as well
StringStopMutDelims(inp, p) ==
    LET c == Current(inp, p)
    IN  \/ IsWhitespace(c)
        \/ c \in {"[", "]", "(", ")", "#", "*", "_", "!", "-", Backtick}
        \/ AtEof(inp, p)

\* the break condition of the loop of consume_string
StringStop(inp, p) ==
    LET c == Current(inp, p)
    IN  \/ IsWhitespace(c)
        \/ c \in {"[", "]", "(", ")", "#", "*", "_", "!"}
        \/ AtEof(inp, p)

RECURSIVE StringEnd(_, _)
StringEnd(inp, p) ==
    IF StringStop(inp, p) THEN p ELSE StringEnd(inp, ReadPos(inp, p))

\* Tokenizer::consume_string
ConsumeString(inp, p) ==
    LET e == StringEnd(inp, p)
    IN  [tok |-> TokString(SubSeq(inp, p + 1, e)), pos |-> e, panic |-> FALSE]

\* the while loop of consume_delim: the cursor after the run of delim
RECURSIVE DelimEnd(_, _, _)
DelimEnd(inp, p, delim) ==
    IF Current(inp, p) = delim THEN DelimEnd(inp, ReadPos(inp, p), delim) ELSE p

\* consume_delim with the count started at 0
ConsumeDelimMutCount(inp, p) ==
    LET delim == Current(inp, p)
        e     == DelimEnd(inp, ReadPos(inp, p), delim)
        count == e - ReadPos(inp, p)
    IN  CASE delim = "#" -> [tok |-> Tok("Hash", count, <<>>), pos |-> e, panic |-> FALSE]
          [] delim = "*" -> [tok |-> Tok("Asterisk", count, <<>>), pos |-> e, panic |-> FALSE]
          [] delim = Backtick -> [tok |-> Tok("Backticks", count, <<>>), pos |-> e, panic |-> FALSE]
          [] delim = "-" -> [tok |-> Tok("Dash", count, <<>>), pos |-> e, panic |-> FALSE]
          [] delim = "_" -> [tok |-> Tok("Underscore", count, <<>>), pos |-> e, panic |-> FALSE]
          [] OTHER -> [tok |-> NoToken, pos |-> e, panic |-> TRUE]

\* Tokenizer::consume_delim
ConsumeDelim(inp, p) ==
    LET delim == Current(inp, p)
        e     == DelimEnd(inp, ReadPos(inp, p), delim)
        count == 1 + (e - ReadPos(inp, p))
    IN  CASE delim = "#" -> [tok |-> Tok("Hash", count, <<>>), pos |-> e, panic |-> FALSE]
          [] delim = "*" -> [tok |-> Tok("Asterisk", count, <<>>), pos |-> e, panic |-> FALSE]
          [] delim = Backtick -> [tok |-> Tok("Backticks", count, <<>>), pos |-> e, panic |-> FALSE]
          [] delim = "-" -> [tok |-> Tok("Dash", count, <<>>), pos |-> e, panic |-> FALSE]
          [] delim = "_" -> [tok |-> Tok("Underscore", count, <<>>), pos |-> e, panic |-> FALSE]
          [] OTHER -> [tok |-> NoToken, pos |-> e, panic |-> TRUE]

\* consume() without the end-of-input test
ConsumeMutNoEof(inp, p) ==
    LET char == Current(inp, p)
    IN  CASE char \in DelimChars -> ConsumeDelim(inp, p)
          [] char \in SingleChars ->
                LET r == FromStr(<<char>>)
                IN  [tok |-> r.tok, pos |-> ReadPos(inp, p), panic |-> r.panic]
          [] IsWhitespace(char) -> ConsumeWhitespace(inp, p)
          [] OTHER -> ConsumeString(inp, p)

\* consume() sending every character that starts no run to from_str
ConsumeMutFromStr(inp, p) ==
    IF AtEof(inp, p) THEN [tok |-> TokEOF, pos |-> p, panic |-> FALSE]
    ELSE LET char == Current(inp, p)
         IN  CASE char \in DelimChars -> ConsumeDelim(inp, p)
               [] IsWhitespace(char) -> ConsumeWhitespace(inp, p)
               [] OTHER ->
                     LET r == FromStr(<<char>>)
                     IN  [tok |-> r.tok, pos |-> ReadPos(inp, p), panic |-> r.panic]

\* Tokenizer::consume
Consume(inp, p) ==
    IF AtEof(inp, p) THEN [tok |-> TokEOF, pos |-> p, panic |-> FALSE]
    ELSE LET char == Current(inp, p)
         IN  CASE char \in DelimChars -> ConsumeDelim(inp, p)
               [] char \in SingleChars ->
                     LET r == FromStr(<<char>>)
                     IN  [tok |-> r.tok, pos |-> ReadPos(inp, p), panic |-> r.panic]
               [] IsWhitespace(char) -> ConsumeWhitespace(inp, p)
               [] OTHER -> ConsumeString(inp, p)

\* one entry of the log of consume() calls
Pull(r, p) == [tok |-> r.tok, from |-> p, to |-> r.pos]

-----------------------------------------------------------------------------
(* The syntax tree.  One record shape for every node: InlineToken::Text     *)
(* uses text; Link uses tokens and href; Heading uses level and tokens;     *)
(* List uses lkind and items; Document keeps its elements in items.         *)

Node(kind, level, text, tokens, href, lkind, items) ==
    [kind |-> kind, level |-> level, text |-> text, tokens |-> tokens,
     href |-> href, lkind |-> lkind, items |-> items]

\* InlineToken::Text
TextNode(s) == Node("Text", 0, s, <<>>, <<>>, "", <<>>)

\* InlineToken::Link(Link { tokens, href })
LinkNode(tokens, href) == Node("Link", 0, <<>>, tokens, href, "", <<>>)

\* Element::Heading(Heading { level, tokens })
HeadingNode(level, tokens) == Node("Heading", level, <<>>, tokens, <<>>, "", <<>>)

\* Element::List(List { kind, items })
ListNode(lkind, items) == Node("List", 0, <<>>, <<>>, <<>>, lkind, items)

\* Document(elements)
DocumentNode(elements) == Node("Document", 0, <<>>, <<>>, <<>>, "", elements)

-----------------------------------------------------------------------------
(* The parser's call stack.  A frame is one activation of a Parser method:  *)
(* st is the place the activation has reached, level/acc/text its locals.   *)

Frame(fn, st, level, acc, text) ==
    [fn |-> fn, st |-> st, level |-> level, acc |-> acc, text |-> text]

NewFrame(fn) == Frame(fn, 0, 0, <<>>, <<>>)

Top == stack[Len(stack)]

Front(stk) == SubSeq(stk, 1, Len(stk) - 1)

ReplaceTop(stk, f) == Append(Front(stk), f)

\* eat() returning the token it has just pulled instead of the buffered one
EatMutReturnsNew(inp, p, la) ==
    IF la = NoToken
    THEN [tok |-> NoToken, lookahead |-> la, pos |-> p, log |-> <<>>,
          panic |-> TRUE, lexpanic |-> FALSE]
    ELSE LET r == Consume(inp, p)
         IN  [tok |-> r.tok, lookahead |-> r.tok, pos |-> r.pos,
              log |-> <<Pull(r, p)>>, panic |-> r.panic, lexpanic |-> r.panic]

\* Parser::eat: the token returned, the lookahead and the cursor afterwards,
\* the consume() call made, and whether todo!() or a tokenizer panic was reached
Eat(inp, p, la) ==
    IF la = NoToken
    THEN [tok |-> NoToken, lookahead |-> la, pos |-> p, log |-> <<>>,
          panic |-> TRUE, lexpanic |-> FALSE]
    ELSE LET r == Consume(inp, p)
         IN  [tok |-> la, lookahead |-> r.tok, pos |-> r.pos,
              log |-> <<Pull(r, p)>>, panic |-> r.panic, lexpanic |-> r.panic]

\* parse_text appending the text of String tokens only
PushStrMutSkipWhitespace(text, tok) ==
    IF tok.kind = "Whitespace" THEN text ELSE text \o ToString(tok)

\* parse_text: text.push_str(&self.eat().to_string())
PushStr(text, tok) == text \o ToString(tok)

\* parse_heading with the level clamped to the six levels of HTML
HeadingLevelMutClamp(tok) ==
    IF Len(ToString(tok)) > 6 THEN 6 ELSE Len(ToString(tok))

\* parse_heading: let level = self.eat().to_string().len()
HeadingLevel(tok) == Len(ToString(tok))

\* A callee returns value v to the stack stk of its callers: what each caller
\* does with the value up to its next own step.  [stack, value]; an empty
\* stack means the entry operation itself has returned value.
RECURSIVE Deliver(_, _)
Deliver(stk, v) ==
    IF stk = <<>> THEN [stack |-> <<>>, value |-> v]
    ELSE LET f == stk[Len(stk)]
         IN  CASE f.fn = "parse_elements" ->
                    \* elements.push(self.parse_element())
                    [stack |-> ReplaceTop(stk, [f EXCEPT !.acc = Append(f.acc, v)]),
                     value |-> v]
               [] f.fn = "parse_element" ->
                    \* return Element::Heading(self.parse_heading())
                    Deliver(Front(stk), v)
               [] f.fn = "parse_heading" ->
                    \* Heading { level, tokens }
                    Deliver(Front(stk), HeadingNode(f.level, v))
               [] f.fn = "parse_inline_tokens" ->
                    \* tokens.push(self.parse_inline_token())
                    [stack |-> ReplaceTop(stk, [f EXCEPT !.acc = Append(f.acc, v)]),
                     value |-> v]
               [] f.fn = "parse_inline_token" ->
                    \* InlineToken::Text(self.parse_text()) or
                    \* InlineToken::Link(self.parse_link())
                    Deliver(Front(stk), IF f.st = 1 THEN TextNode(v) ELSE v)
               [] f.fn = "parse_link" ->
                    \* let tokens = self.parse_inline_tokens() or
                    \* let href = self.parse_text()
                    IF f.st = 1
                    THEN [stack |-> ReplaceTop(stk, [f EXCEPT !.acc = v, !.st = 2]),
                          value |-> v]
                    ELSE [stack |-> ReplaceTop(stk, [f EXCEPT !.text = v, !.st = 4]),
                          value |-> v]

-----------------------------------------------------------------------------
(* Inputs. *)

SeqsUpTo(S, n) == UNION {[1..k -> S] : k \in 0..n}

\* the input of test::consume_delims: 5 hashes, 2 asterisks, 3 backticks,
\* 3 dashes, 2 underscores
DelimsInput ==
    <<"#", "#", "#", "#", "#", "*", "*", Backtick, Backtick, Backtick,
      "-", "-", "-", "_", "_">>

\* "[text](link)"
LinkInput == <<"[", "t", "e", "x", "t", "]", "(", "l", "i", "n", "k", ")">>

\* "[text](link": the closing parenthesis is missing
UnterminatedLinkInput == <<"[", "t", "e", "x", "t", "]", "(", "l", "i", "n", "k">>

\* "#[text](link)": the link as the inline content of a heading
HeadingLinkInput == <<"#">> \o LinkInput

\* "#[text](link"
HeadingUnterminatedLinkInput == <<"#">> \o UnterminatedLinkInput

\* "- a\n- b\n- c": three consecutive dash-prefixed items
ThreeItemsInput == <<"-", " ", "a", "\n", "-", " ", "b", "\n", "-", " ", "c">>

\* "# a\n# b": a heading followed by a second heading
TwoHeadingsInput == <<"#", " ", "a", "\n", "#", " ", "b">>

\* "a-b`c" with its backtick: a dash and a backtick inside a word
DashBacktickInput == <<"a", "-", "b", Backtick, "c">>

\* "## h\n \t*b*[t](l)": a hash run, whitespace, text, a run of mixed
\* whitespace, a delimiter pair, a bracket and parenthesis sequence
InterleavedInput ==
    <<"#", "#", " ", "h", "\n", " ", "\t", "*", "b", "*", "[", "t", "]", "(", "l", ")">>

\* k hashes, a space and the text T
HeadingInput(k, T) == Repeat("#", k) \o <<" ">> \o T

HeadingInputs ==
    {HeadingInput(k, T) : k \in 1..MaxLevel, T \in SeqsUpTo(HeadingTextChars, MaxTextLen)}

NamedInputs ==
    {DelimsInput, LinkInput, UnterminatedLinkInput, HeadingLinkInput,
     HeadingUnterminatedLinkInput, ThreeItemsInput, TwoHeadingsInput,
     DashBacktickInput, InterleavedInput, <<">">>}

Inputs == SeqsUpTo(Alphabet, MaxLen) \cup HeadingInputs \cup NamedInputs

-----------------------------------------------------------------------------
(* The state machine.  The client loads an input and calls one public       *)
(* operation: Tokenizer::consume() again and again, Parser::parse(), or     *)
(* Parser::parse_link() or Parser::parse_list() on a new parser.  A parser  *)
(* step is one step of the innermost activation on the call stack.          *)

Entries == {"consume", "parse", "parse_link", "parse_list"}

\* CharIterator::new + read_from_str, Tokenizer::new, Parser::new
Init ==
    /\ input \in Inputs
    /\ entry \in Entries
    /\ pos = 0
    /\ pulled = <<>>
    /\ eaten = <<>>
    /\ lexpanic = FALSE
    /\ lookahead = NoToken
    /\ stack = <<>>
    /\ pstate = "idle"
    /\ result = <<>>

\* the client calls Tokenizer::consume() once more
ClientConsume ==
    /\ entry = "consume"
    /\ ~lexpanic
    /\ Len(pulled) < MaxCalls
    /\ LET r == Consume(input, pos)
       IN  /\ pos' = r.pos
           /\ pulled' = Append(pulled, Pull(r, pos))
           /\ lexpanic' = r.panic
    /\ UNCHANGED <<input, entry, eaten, lookahead, stack, pstate, result>>

\* the innermost activation, now f, calls method fn
Call(fn, f) ==
    /\ IF Len(stack) >= MaxDepth
       THEN pstate' = "stack_overflow" /\ stack' = stack
       ELSE pstate' = pstate /\ stack' = Append(ReplaceTop(stack, f), NewFrame(fn))
    /\ result' = result

\* the innermost activation returns v
Return(v) ==
    LET d == Deliver(Front(stack), v)
    IN  /\ stack' = d.stack
        /\ IF d.stack = <<>>
           THEN /\ pstate' = "done"
                /\ result' = IF entry = "parse" THEN DocumentNode(d.value) ELSE d.value
           ELSE /\ pstate' = pstate
                /\ result' = result

\* the innermost activation reaches todo!()
Todo ==
    /\ pstate' = "panic"
    /\ stack' = stack
    /\ result' = result

\* Parser::parse up to its call of parse_elements
StartParse ==
    /\ entry = "parse"
    /\ pstate = "idle"
    /\ Len(pulled) < MaxCalls
    /\ LET r == Consume(input, pos)
       IN  /\ lookahead' = r.tok
           /\ pos' = r.pos
           /\ pulled' = Append(pulled, Pull(r, pos))
           /\ lexpanic' = r.panic
           /\ pstate' = IF r.panic THEN "panic" ELSE "running"
    /\ stack' = <<NewFrame("parse_elements")>>
    /\ UNCHANGED <<input, entry, eaten, result>>

\* the client calls Parser::parse_link on a parser whose lookahead is None
StartParseLink ==
    /\ entry = "parse_link"
    /\ pstate = "idle"
    /\ pstate' = "running"
    /\ stack' = <<NewFrame("parse_link")>>
    /\ UNCHANGED <<input, entry, eaten, pos, pulled, lexpanic, lookahead, result>>

\* the client calls Parser::parse_list, which returns at once
ParseList ==
    /\ entry = "parse_list"
    /\ pstate = "idle"
    /\ pstate' = "done"
    /\ result' = ListNode("Unordered", <<>>)
    /\ UNCHANGED <<input, entry, eaten, pos, pulled, lexpanic, lookahead, stack>>

\* Parser::parse_elements: one turn of its loop
ParseElements ==
    /\ pstate = "running"
    /\ Top.fn = "parse_elements"
    /\ IF lookahead # NoToken /\ lookahead.kind # "EOF"
       THEN Call("parse_element", Top)
       ELSE Return(Top.acc)
    /\ UNCHANGED <<input, entry, eaten, pos, pulled, lexpanic, lookahead>>

\* Parser::parse_element
ParseElement ==
    /\ pstate = "running"
    /\ Top.fn = "parse_element"
    /\ IF lookahead # NoToken /\ lookahead.kind = "Hash"
       THEN Call("parse_heading", Top)
       ELSE Todo
    /\ UNCHANGED <<input, entry, eaten, pos, pulled, lexpanic, lookahead>>

\* Parser::parse_heading up to its call of parse_inline_tokens
ParseHeading ==
    /\ pstate = "running"
    /\ Top.fn = "parse_heading"
    /\ Len(pulled) < MaxCalls
    /\ LET e == Eat(input, pos, lookahead)
       IN  /\ pos' = e.pos
           /\ lookahead' = e.lookahead
           /\ pulled' = pulled \o e.log
           /\ lexpanic' = e.lexpanic
           /\ eaten' = IF e.panic THEN eaten ELSE Append(eaten, e.tok)
           /\ IF e.panic
              THEN Todo
              ELSE Call("parse_inline_tokens",
                        [Top EXCEPT !.level = HeadingLevel(e.tok), !.st = 1])
    /\ UNCHANGED <<input, entry>>

\* Parser::parse_inline_tokens: one turn of its loop
ParseInlineTokens ==
    /\ pstate = "running"
    /\ Top.fn = "parse_inline_tokens"
    /\ IF lookahead # NoToken /\ lookahead.kind # "EOF"
       THEN Call("parse_inline_token", Top)
       ELSE Return(Top.acc)
    /\ UNCHANGED <<input, entry, eaten, pos, pulled, lexpanic, lookahead>>

\* Parser::parse_inline_token
ParseInlineToken ==
    /\ pstate = "running"
    /\ Top.fn = "parse_inline_token"
    /\ CASE lookahead.kind = "OpeningBracket" ->
                Call("parse_link", [Top EXCEPT !.st = 2])
         [] lookahead.kind \in {"String", "Whitespace"} ->
                Call("parse_text", [Top EXCEPT !.st = 1])
         [] OTHER -> Todo
    /\ UNCHANGED <<input, entry, eaten, pos, pulled, lexpanic, lookahead>>

\* Parser::parse_text: one turn of its loop
ParseText ==
    /\ pstate = "running"
    /\ Top.fn = "parse_text"
    /\ IF lookahead.kind \in {"Whitespace", "String"}
       THEN /\ Len(pulled) < MaxCalls
            /\ LET e == Eat(input, pos, lookahead)
               IN  /\ pos' = e.pos
                   /\ lookahead' = e.lookahead
                   /\ pulled' = pulled \o e.log
                   /\ lexpanic' = e.lexpanic
                   /\ eaten' = IF e.panic THEN eaten ELSE Append(eaten, e.tok)
                   /\ IF e.panic
                      THEN Todo
                      ELSE /\ stack' = ReplaceTop(stack,
                                  [Top EXCEPT !.text = PushStr(Top.text, e.tok)])
                           /\ UNCHANGED <<pstate, result>>
       ELSE /\ Return(Top.text)
            /\ UNCHANGED <<pos, pulled, eaten, lexpanic, lookahead>>
    /\ UNCHANGED <<input, entry>>

\* Parser::parse_link up to its call of parse_inline_tokens
ParseLinkOpen ==
    /\ pstate = "running"
    /\ Top.fn = "parse_link"
    /\ Top.st = 0
    /\ Len(pulled) < MaxCalls
    /\ LET r == Consume(input, pos)
       IN  /\ pos' = r.pos
           /\ pulled' = Append(pulled, Pull(r, pos))
           /\ lexpanic' = r.panic
           /\ IF r.panic
              THEN Todo
              ELSE Call("parse_inline_tokens", [Top EXCEPT !.st = 1])
    /\ UNCHANGED <<input, entry, eaten, lookahead>>

\* Parser::parse_link from the return of parse_inline_tokens up to its call
\* of parse_text
ParseLinkHref ==
    /\ pstate = "running"
    /\ Top.fn = "parse_link"
    /\ Top.st = 2
    /\ Len(pulled) + 2 <= MaxCalls
    /\ LET r1 == Consume(input, pos)
           r2 == Consume(input, r1.pos)
       IN  IF r1.panic
           THEN /\ pos' = r1.pos
                /\ pulled' = Append(pulled, Pull(r1, pos))
                /\ lexpanic' = TRUE
                /\ Todo
           ELSE /\ pos' = r2.pos
                /\ pulled' = pulled \o <<Pull(r1, pos), Pull(r2, r1.pos)>>
                /\ lexpanic' = r2.panic
                /\ IF r2.panic
                   THEN Todo
                   ELSE Call("parse_text", [Top EXCEPT !.st = 3])
    /\ UNCHANGED <<input, entry, eaten, lookahead>>

\* Parser::parse_link from the return of parse_text to its own return
ParseLinkClose ==
    /\ pstate = "running"
    /\ Top.fn = "parse_link"
    /\ Top.st = 4
    /\ Len(pulled) < MaxCalls
    /\ LET r == Consume(input, pos)
       IN  /\ pos' = r.pos
           /\ pulled' = Append(pulled, Pull(r, pos))
           /\ lexpanic' = r.panic
           /\ IF r.panic
              THEN Todo
              ELSE Return(LinkNode(Top.acc, Top.text))
    /\ UNCHANGED <<input, entry, eaten, lookahead>>

Next ==
    \/ ClientConsume
    \/ StartParse
    \/ StartParseLink
    \/ ParseList
    \/ ParseElements
    \/ ParseElement
    \/ ParseHeading
    \/ ParseInlineTokens
    \/ ParseInlineToken
    \/ ParseText
    \/ ParseLinkOpen
    \/ ParseLinkHref
    \/ ParseLinkClose

Spec == Init /\ [][Next]_vars

-----------------------------------------------------------------------------
(* Properties of the tokenizer. *)

TokenKinds ==
    {"String", "Hash", "Asterisk", "Backticks", "Dash", "Underscore", "Url",
     "Whitespace", "OpeningParenthesis", "ClosingParenthesis", "OpeningBracket",
     "ClosingBracket", "AngleBracket", "ExclamationMark", "EOF"}

\* the run-length token kind that belongs to a delimiter character
DelimKind(c) ==
    CASE c = "#" -> "Hash"
      [] c = "*" -> "Asterisk"
      [] c = Backtick -> "Backticks"
      [] c = "_" -> "Underscore"
      [] c = "-" -> "Dash"

\* the texts of the tokens of a log of consume() calls, concatenated in order
RECURSIVE TokensText(_)
TokensText(log) ==
    IF log = <<>> THEN <<>> ELSE ToString(Head(log).tok) \o TokensText(Tail(log))

\* C1: once the cursor is at end-of-input, every consume() call returns
\* Token::EOF and leaves the cursor where it is, however often it is repeated,
\* and none of those calls panics.
C1_EofIdempotent ==
    \A i \in DOMAIN pulled :
        AtEof(input, pulled[i].from) =>
            /\ pulled[i].tok = TokEOF
            /\ pulled[i].to = pulled[i].from
            /\ (i = Len(pulled) => ~lexpanic)

\* C1 witness: a non-empty input on which consume() was called three times
\* after the cursor had reached end-of-input.
C1_Witness ==
    /\ entry = "consume"
    /\ Len(input) > 0
    /\ Cardinality({i \in DOMAIN pulled : AtEof(input, pulled[i].from)}) >= 3

\* C2: when the client has called consume() up to the first EOF, the
\* to_string() texts of the returned tokens, concatenated in order, are the
\* input.
C2_RoundTrip ==
    (/\ entry = "consume"
     /\ pulled # <<>>
     /\ pulled[Len(pulled)].tok = TokEOF)
        => TokensText(pulled) = input

\* C3: a consume() call made with the cursor at a delimiter character c
\* returns the run-length token of c whose count is the number of characters
\* consumed; the characters consumed are all c, and the run ends at the first
\* character that differs from c or at end-of-input.
C3_DelimRun ==
    \A i \in DOMAIN pulled :
        LET c == Current(input, pulled[i].from)
            t == pulled[i].tok
        IN  c \in DelimChars =>
                /\ t.kind = DelimKind(c)
                /\ t.n = pulled[i].to - pulled[i].from
                /\ t.n >= 1
                /\ \A j \in (pulled[i].from + 1)..pulled[i].to : input[j] = c
                /\ Current(input, pulled[i].to) # c

\* C3 witness: the input of test::consume_delims lexed into Hash(5),
\* Asterisk(2), Backticks(3), Dash(3), Underscore(2).
C3_Witness ==
    /\ input = DelimsInput
    /\ Len(pulled) >= 5
    /\ [i \in 1..5 |-> pulled[i].tok] =
          <<Tok("Hash", 5, <<>>), Tok("Asterisk", 2, <<>>), Tok("Backticks", 3, <<>>),
            Tok("Dash", 3, <<>>), Tok("Underscore", 2, <<>>)>>

\* C4: a consume() call made with the cursor at '!' consumes exactly one
\* character and returns ExclamationMark.
C4_ExclamationMark ==
    \A i \in DOMAIN pulled :
        Current(input, pulled[i].from) = "!" =>
            /\ pulled[i].tok.kind = "ExclamationMark"
            /\ pulled[i].to = pulled[i].from + 1

\* C5: no String or Whitespace token returned by consume() is empty; such a
\* token is returned only after at least one character was consumed.
C5_NoEmptyRun ==
    \A i \in DOMAIN pulled :
        pulled[i].tok.kind \in {"String", "Whitespace"} =>
            /\ Len(pulled[i].tok.s) > 0
            /\ pulled[i].to > pulled[i].from

\* C6: consume() never reaches a panic or todo!(): every call returns EOF or
\* a token.
C6_LexerNeverFails ==
    /\ ~lexpanic
    /\ \A i \in DOMAIN pulled : pulled[i].tok.kind \in TokenKinds

\* C6 witness: the client lexed an input to its end through from_str (a
\* bracket), consume_delim and consume_string.
C6_Witness ==
    /\ entry = "consume"
    /\ pulled # <<>>
    /\ pulled[Len(pulled)].tok = TokEOF
    /\ \E i, j, k \in DOMAIN pulled :
          /\ pulled[i].tok.kind = "ClosingBracket"
          /\ pulled[j].tok.kind = "Dash"
          /\ pulled[k].tok.kind = "String"

-----------------------------------------------------------------------------
(* Properties of the parser. *)

\* the entry operation has ended: it returned, panicked or overflowed the stack
Ended == pstate \in {"done", "panic", "stack_overflow"}

\* T is plain text: no character that ends a text run, and a dash or backtick
\* only inside a text run, so that T lexes into String and Whitespace tokens
PlainText(T) ==
    \A i \in DOMAIN T :
        /\ T[i] \notin {"[", "]", "(", ")", "#", "*", "_", "!"}
        /\ T[i] \in {"-", Backtick} => (i > 1 /\ ~IsWhitespace(T[i - 1]))

\* the text after the k hashes and the space of a heading input
HeadingText(inp, k) == SubSeq(inp, k + 2, Len(inp))

\* inp is k hashes, a space and plain text
IsHeadingInput(inp, k) ==
    /\ k >= 1
    /\ Len(inp) >= k + 1
    /\ \A i \in 1..k : inp[i] = "#"
    /\ inp[k + 1] = " "
    /\ PlainText(HeadingText(inp, k))

\* C7: on an input of k hashes, a space and plain text T, parse() keeps
\* going until it returns, and returns a Document of exactly one element, the
\* Heading of level k whose inline content is the single Text " " + T; the
\* level is the run length of the hashes, whatever k is.
C7_Heading ==
    \A k \in 1..Len(input) :
        (entry = "parse" /\ IsHeadingInput(input, k)) =>
            /\ pstate \in {"idle", "running", "done"}
            /\ pstate \in {"idle", "running"} => ENABLED Next
            /\ pstate = "done" =>
                  result = DocumentNode(
                      <<HeadingNode(k, <<TextNode(<<" ">> \o HeadingText(input, k))>>)>>)

\* C7 witness: parse() has returned on seven hashes, a space and "a a".
C7_Witness ==
    /\ entry = "parse"
    /\ input = HeadingInput(7, <<"a", " ", "a">>)
    /\ pstate = "done"
    /\ result.items[1].level = 7

\* the Link that "[text](link)" stands for
ExpectedLink ==
    LinkNode(<<TextNode(<<"t", "e", "x", "t">>)>>, <<"l", "i", "n", "k">>)

\* link parsing was started on the tokens of inp: by parse_link itself, or by
\* parse() reaching parse_link with the heading's hash eaten
LinkParseOf(inp) ==
    \/ entry = "parse_link" /\ input = inp
    \/ entry = "parse" /\ input = <<"#">> \o inp

\* C8: link parsing on the tokens of "[text](link)" ends by returning
\* Link{inline: [Text("text")], href: "link"}, with the six tokens consumed
\* once each: the cursor is at the end of the input and the lexer was called
\* for those tokens and the EOF after them only.
C8_Link ==
    (LinkParseOf(LinkInput) /\ Ended) =>
        /\ pstate = "done"
        /\ result = IF entry = "parse_link" THEN ExpectedLink
                    ELSE DocumentNode(<<HeadingNode(1, <<ExpectedLink>>)>>)
        /\ pos = Len(input)

\* C9: link parsing on "[text](link", which ends before the closing
\* parenthesis, ends in an unterminated-construct error, never in a Link and
\* never in another kind of failure.
C9_UnterminatedLink ==
    (LinkParseOf(UnterminatedLinkInput) /\ Ended) =>
        pstate = "unterminated_construct"

\* C10: parse() on three consecutive dash-prefixed items returns a Document
\* of exactly one element, an Unordered List of exactly three items.
C10_ThreeItemList ==
    (entry = "parse" /\ input = ThreeItemsInput /\ Ended) =>
        /\ pstate = "done"
        /\ Len(result.items) = 1
        /\ result.items[1].kind = "List"
        /\ result.items[1].lkind = "Unordered"
        /\ Len(result.items[1].items) = 3

\* C11: no List returned by a parser operation is empty: a List that is the
\* result of the entry operation, or an element of the Document it returned,
\* has at least one item.
C11_NoEmptyList ==
    pstate = "done" =>
        /\ result.kind = "List" => Len(result.items) >= 1
        /\ result.kind = "Document" =>
              \A i \in DOMAIN result.items :
                  result.items[i].kind = "List" => Len(result.items[i].items) >= 1

\* the lookahead tokens that start an inline token
InlineStart(t) ==
    \/ t.kind \in {"ExclamationMark", "OpeningBracket", "String", "Whitespace"}
    \/ t.kind \in {"Backticks", "Underscore"} /\ t.n = 1
    \/ t.kind = "Asterisk" /\ t.n \in {1, 2}

\* C12: when parse() is in parse_inline_token with a lookahead that starts no
\* inline token, the parse ends in a syntax-error result: it does not go on
\* past the token, returns no Document and does not end in any other way.
C12_UnexpectedToken ==
    (/\ entry = "parse"
     /\ stack # <<>>
     /\ Top.fn = "parse_inline_token"
     /\ ~InlineStart(lookahead))
        => pstate \in {"running", "syntax_error"}

\* C13: parse() terminates on every finite input.  The parser is
\* deterministic, so a step of a running parse that leaves the cursor, the
\* lookahead and the call stack as they were repeats for ever; and a parse
\* that overflows the stack has recursed without bound.  Neither happens.
C13_Terminates ==
    [][(entry = "parse" /\ pstate = "running") =>
          /\ (<<pos, lookahead, stack>>' # <<pos, lookahead, stack>>
              \/ pstate' # "running")
          /\ pstate' # "stack_overflow"]_vars

\* C14: parse() on "# a\n# b" returns a Document of two Headings: the inline
\* content of the first stops before the second hash run, which starts the
\* second element.
C14_HeadingStopsAtHash ==
    (entry = "parse" /\ input = TwoHeadingsInput /\ Ended) =>
        /\ pstate = "done"
        /\ Len(result.items) = 2
        /\ \A i \in 1..2 : result.items[i].kind = "Heading" /\ result.items[i].level = 1

\* the tokens of a log of consume() calls
PulledTokens == [i \in 1..Len(pulled) |-> pulled[i].tok]

\* C15: once parse() has started, the tokens returned by eat() followed by
\* the lookahead are the tokens pulled from the lexer so far: every token
\* pulled has been the lookahead, none is discarded.
C15_TokenConservation ==
    (entry = "parse" /\ pstate # "idle") =>
        PulledTokens = eaten \o <<lookahead>>

\* C16: a call of eat() with the token t buffered returns t, pulls exactly
\* one token from the lexer, from the cursor where it stood, and leaves that
\* token as the lookahead.
C16_Eat ==
    [][Len(eaten') = Len(eaten) + 1 =>
          /\ lookahead # NoToken
          /\ eaten'[Len(eaten')] = lookahead
          /\ Len(pulled') = Len(pulled) + 1
          /\ pulled'[Len(pulled')].from = pos
          /\ pulled'[Len(pulled')].to = pos'
          /\ lookahead' = pulled'[Len(pulled')].tok]_vars

\* C16 witness: parse() has called eat() three times, on a Hash, a
\* Whitespace and a String token, and holds EOF as lookahead.
C16_Witness ==
    /\ entry = "parse"
    /\ Len(eaten) = 3
    /\ eaten[1].kind = "Hash" /\ eaten[2].kind = "Whitespace" /\ eaten[3].kind = "String"
    /\ lookahead = TokEOF

TextKinds == {"String", "Whitespace"}

\* the longest suffix of a sequence of tokens that is Text and Whitespace
\* tokens only
RECURSIVE TextRun(_)
TextRun(toks) ==
    IF toks = <<>> \/ toks[Len(toks)].kind \notin TextKinds THEN <<>>
    ELSE Append(TextRun(SubSeq(toks, 1, Len(toks) - 1)), toks[Len(toks)])

\* the literal contents of a sequence of Text and Whitespace tokens, in order
RECURSIVE Contents(_)
Contents(toks) ==
    IF toks = <<>> THEN <<>> ELSE Head(toks).s \o Contents(Tail(toks))

\* the text parse_text has just returned, where its caller put it: the href
\* of parse_link, or the Text pushed by parse_inline_tokens
ReturnedText ==
    IF Top.fn = "parse_link" THEN Top.text ELSE Top.acc[Len(Top.acc)].text

\* C17: parse_text, called with a token buffered, is entered with no token
\* of the run eaten yet, and on return (a) the lookahead is neither Text nor
\* Whitespace and is left as it is, with nothing pulled or eaten by the
\* return, and (b) the text returned is the contents, in order, of the run
\* of Text and Whitespace tokens eaten up to that lookahead.
C17_ParseText ==
    [][(pstate = "running" /\ lookahead # NoToken) =>
          /\ (Len(stack') > Len(stack) /\ stack'[Len(stack')].fn = "parse_text")
                => TextRun(eaten) = <<>>
          /\ (Top.fn = "parse_text" /\ Len(stack') < Len(stack)) =>
                /\ lookahead.kind \notin TextKinds
                /\ UNCHANGED <<lookahead, pos, pulled, eaten>>
                /\ ReturnedText' = Contents(TextRun(eaten))]_vars

\* C17 witness: in parse() on "# a a" parse_text has returned " a a", the
\* text of four tokens, with EOF left as lookahead.
C17_Witness ==
    /\ entry = "parse"
    /\ input = HeadingInput(1, <<"a", " ", "a">>)
    /\ pstate = "running"
    /\ Top.fn = "parse_inline_tokens"
    /\ Top.acc = <<TextNode(<<" ", "a", " ", "a">>)>>
    /\ Len(TextRun(eaten)) = 4
    /\ lookahead = TokEOF

\* a character that ends a text run
TextBoundary(ch) ==
    IsWhitespace(ch) \/ ch \in {"[", "]", "(", ")", "#", "*", "_", "!"}

\* C18: a consume() call made at a character that is not whitespace, not a
\* delimiter-run character, not a bracket or parenthesis and not '!' returns
\* one String token holding the characters from the cursor up to the first
\* whitespace or [ ] ( ) # * _ ! or the end of the input; a dash or a
\* backtick inside the run does not end it, while a call made at a dash or a
\* backtick returns a delimiter run.
C18_TextRun ==
    \A i \in DOMAIN pulled :
        LET from == pulled[i].from
            to   == pulled[i].to
            c    == Current(input, from)
            t    == pulled[i].tok
        IN  /\ (/\ ~AtEof(input, from)
                /\ ~IsWhitespace(c)
                /\ c \notin DelimChars \cup SingleChars \cup {"!"}) =>
                   /\ t.kind = "String"
                   /\ to > from
                   /\ t.s = SubSeq(input, from + 1, to)
                   /\ \A j \in (from + 1)..to : ~TextBoundary(input[j])
                   /\ to = Len(input) \/ TextBoundary(input[to + 1])
            /\ c \in {"-", Backtick} => t.kind \in {"Dash", "Backticks"}

\* C18 witness: "a-b`c" lexed as one String token followed by EOF.
C18_Witness ==
    /\ input = DashBacktickInput
    /\ Len(pulled) >= 2
    /\ pulled[1].tok = TokString(DashBacktickInput)
    /\ pulled[2].tok = TokEOF

\* C19: a consume() call made at a whitespace character returns one
\* Whitespace token whose text is exactly the run of whitespace characters
\* from the cursor up to the first character that is not whitespace or the
\* end of the input; no two Whitespace tokens follow one another; and the
\* tokens come in input order, each starting where the one before it ended.
C19_WhitespaceRun ==
    /\ \A i \in DOMAIN pulled :
          LET from == pulled[i].from
              to   == pulled[i].to
              t    == pulled[i].tok
          IN  IsWhitespace(Current(input, from)) =>
                  /\ t.kind = "Whitespace"
                  /\ to > from
                  /\ t.s = SubSeq(input, from + 1, to)
                  /\ \A j \in (from + 1)..to : IsWhitespace(input[j])
                  /\ ~IsWhitespace(Current(input, to))
    /\ \A i \in 1..(Len(pulled) - 1) :
          /\ ~(pulled[i].tok.kind = "Whitespace" /\ pulled[i + 1].tok.kind = "Whitespace")
          /\ pulled[i + 1].from = pulled[i].to
    /\ pulled # <<>> => pulled[1].from = 0

\* C19 witness: the interleaved input lexed to its end, its run of newline,
\* space and tab being one Whitespace token.
C19_Witness ==
    /\ entry = "consume"
    /\ input = InterleavedInput
    /\ Len(pulled) = 14
    /\ PulledTokens =
          <<Tok("Hash", 2, <<>>), TokWhitespace(<<" ">>), TokString(<<"h">>),
            TokWhitespace(<<"\n", " ", "\t">>), Tok("Asterisk", 1, <<>>),
            TokString(<<"b">>), Tok("Asterisk", 1, <<>>),
            Tok("OpeningBracket", 0, <<>>), TokString(<<"t">>),
            Tok("ClosingBracket", 0, <<>>), Tok("OpeningParenthesis", 0, <<>>),
            TokString(<<"l">>), Tok("ClosingParenthesis", 0, <<>>), TokEOF>>

\* C20: every consume() call made before end-of-input advances the cursor by
\* at least one character, so an input of n characters gives at most n
\* tokens before EOF.
C20_LexerProgress ==
    /\ \A i \in DOMAIN pulled :
          ~AtEof(input, pulled[i].from) => pulled[i].to > pulled[i].from
    /\ Cardinality({i \in DOMAIN pulled : pulled[i].tok # TokEOF}) <= Len(input)

====
